---- MODULE Spec2Model ----
(***************************************************************************)
(* Model of src/main.py: the processed_agent_data service.                 *)
(*                                                                         *)
(* The ingest handler create_processed_agent_data is a coroutine running   *)
(* on one event loop: between two suspension points it runs alone.  Its    *)
(* only suspension points after the commit are the awaits of               *)
(* websocket.send_text (line 116).  `running` is the coroutine that holds  *)
(* the event loop, 0 when the loop is free.                                *)
(*                                                                         *)
(* The record store (SQLAlchemy session), the pydantic models and the      *)
(* websocket channel are external collaborators, modelled by what the      *)
(* handler expects of them: the store assigns the id and commits or fails, *)
(* json.dumps yields the fields of the row, a send on an open channel      *)
(* writes the message and a send on a closed channel raises.               *)
(*                                                                         *)
(* src/main.py declares the subscriptions map and reads it, but holds no   *)
(* websocket endpoint that fills it; Subscribe, Unsubscribe and            *)
(* BreakChannel model that endpoint from spec.md sections 4.1 and 4.3.     *)
(*                                                                         *)
(* Specifications:                                                         *)
(*   Spec        ingest and fan-out with the endpoint and its faults       *)
(*   SpecSrc     src/main.py alone: ingest and the four query handlers     *)
(*   SpecServing ingest, fan-out, subscribing and the query handlers       *)
(*   SpecAll     Spec and the query handlers together                      *)
(*   SpecHang    ingest and fan-out with consumers that never read, under  *)
(*               weak fairness of the handlers                             *)
(***************************************************************************)
EXTENDS Integers, Sequences, FiniteSets, TLC

\* ------------------------------------------------------------------ bounds
NumConns == 2

Conns == 1..NumConns
\* the agent ids of the scenarios of spec.md section 8
Agents == {7, 42}
\* two ingest requests, which may be in flight together
Handlers == {1, 2}
RoadStates == {"pothole"}
\* the timestamp a client puts in its payload; the server clock starts after it
ClientTime == 0
\* ids the query handlers are asked for: two that ingest assigns, one it never does
QueryIds == {1, 2, 3}
\* road states the update handler is given
UpdateStates == {"smooth"}
\* HTTPException(status_code=404, detail="Item not found")
NotFound == 404
\* the status of a handler that returns
Success == 200
NoResponse == [op |-> "none", id |-> 0, status_code |-> 0, body |-> <<>>]

VARIABLES
    store,          \* processed_agent_data table: id -> row
    nextId,         \* next primary key the store assigns
    clock,          \* datetime.utcnow()
    subscriptions,  \* Dict[int, Set[WebSocket]]: agent id -> set of connections
    connState,      \* endpoint lifecycle of each connection
    alive,          \* whether the channel of a connection is still open
    inbox,          \* messages written to each connection, in order
    subCalls,       \* whether subscribe was called "once" or "again" for a connection
    pc,             \* position of each ingest handler
    req,            \* the ProcessedAgentData payload of each handler
    db_data,        \* the ProcessedAgentDataInDB of each handler
    message,        \* json.dumps(db_data.dict()) of each handler
    response,       \* what the last query handler answered
    iterLen,        \* size of the set when the handler's iterator was made
    iterPos,        \* slot the handler's iterator stands at
    result,         \* outcome of the handler as seen by its caller
    running,        \* handler that holds the event loop, 0 if none
    commits,        \* history: records in the order the store committed them
    snap,           \* history: subscriber set when the handler's loop began
    sent,           \* history: connections the handler has written to
    failed          \* history: connection whose send raised in the handler

vars == <<store, nextId, clock, subscriptions, connState, alive, inbox,
          subCalls, pc, req, db_data, message, iterLen, iterPos,
          result, running, commits, snap, sent, failed, response>>

storeVars == <<store, nextId, clock, commits>>
connVars == <<subscriptions, connState, alive, subCalls>>
iterVars == <<iterLen, iterPos, snap>>

\* ------------------------------------------------------------ pure helpers
Range(s) == {s[i] : i \in DOMAIN s}

\* slot order of the hash table of a set of connections, which is the order
\* the set iterator yields them in.  Connections are interchangeable in every
\* action, so any order is this one up to renaming the connections.
order == [i \in 1..NumConns |-> i]

\* variant of NewRow that keeps the timestamp of the payload
NewRowAs(r, id, now) ==
    [id |-> id, road_state |-> r.road_state, user_id |-> r.user_id,
     timestamp |-> r.timestamp]

\* ProcessedAgentDataInDB(**data.dict(), timestamp=datetime.utcnow()), the id
\* being the primary key the store assigns at commit
NewRow(r, id, now) ==
    [id |-> id, road_state |-> r.road_state, user_id |-> r.user_id,
     timestamp |-> now]

\* json.dumps(db_data.dict()): the fields as key/value pairs in declaration order
Serialize(row) ==
    << <<"id", row.id>>, <<"road_state", row.road_state>>,
       <<"user_id", row.user_id>>, <<"timestamp", row.timestamp>> >>

\* what a client decodes from a message
Decode(msg) ==
    [k \in {msg[i][1] : i \in DOMAIN msg} |->
        (CHOOSE p \in Range(msg) : p[1] = k)[2]]

\* variant of Subscribers that ignores the agent id
SubscribersAs(a) == UNION {subscriptions[b] : b \in DOMAIN subscriptions}

\* the set the handler iterates: subscriptions[data.agent_data.user_id]
Subscribers(a) == subscriptions[a]

Min(S) == CHOOSE x \in S : \A y \in S : x <= y

\* variant of LiveSet that walks a copy taken when the loop began
LiveSetAs(h) == snap[h]

\* the set iterator of the for loop at line 115 walks the slots of the live
\* set object from its position on; LiveSet is the object it walks
LiveSet(h) == Subscribers(db_data[h].user_id)

SlotsFrom(h) == {j \in iterPos[h]..Len(order) : order[j] \in LiveSet(h)}

\* variant of Advance that leaves the iterator where it is
AdvanceAs(j) == j

\* the iterator's position once it has yielded the element of slot j
Advance(j) == j + 1

\* set iterators raise RuntimeError when the set's size differs from the
\* size it had when the iterator was made
SizeChanged(h) == Cardinality(LiveSet(h)) # iterLen[h]

\* -------------------------------------------------------------------- Init
Init ==
    /\ store = <<>>
    /\ nextId = 1
    /\ clock = ClientTime + 1
    /\ subscriptions = <<>>
    /\ connState = [c \in Conns |-> "connecting"]
    /\ alive = [c \in Conns |-> TRUE]
    /\ inbox = [c \in Conns |-> <<>>]
    /\ subCalls = [c \in Conns |-> "none"]
    /\ pc = [h \in Handlers |-> "idle"]
    /\ req = [h \in Handlers |-> <<>>]
    /\ db_data = [h \in Handlers |-> <<>>]
    /\ message = [h \in Handlers |-> <<>>]
    /\ iterLen = [h \in Handlers |-> 0]
    /\ iterPos = [h \in Handlers |-> 1]
    /\ result = [h \in Handlers |-> "none"]
    /\ running = 0
    /\ commits = <<>>
    /\ snap = [h \in Handlers |-> {}]
    /\ sent = [h \in Handlers |-> <<>>]
    /\ failed = [h \in Handlers |-> 0]
    /\ response = NoResponse

\* ------------------------------------------------- create_processed_agent_data
\* a request arrives: requests are numbered in the order they arrive
Arrives(h) ==
    /\ pc[h] = "idle"
    /\ running = 0
    /\ \A g \in Handlers : g < h => pc[g] # "idle"

Payload(a, rs) == [road_state |-> rs, user_id |-> a, timestamp |-> ClientTime]

\* variant of Dispatch without the membership test of line 113: the lookup
\* subscriptions[user_id] of an agent without an entry raises KeyError
DispatchAs(h, row) ==
    /\ db_data' = [db_data EXCEPT ![h] = row]
    /\ IF row.user_id \in DOMAIN subscriptions
       THEN /\ message' = [message EXCEPT ![h] = Serialize(row)]
            /\ iterLen' = [iterLen EXCEPT ![h] = Cardinality(Subscribers(row.user_id))]
            /\ snap' = [snap EXCEPT ![h] = Subscribers(row.user_id)]
            /\ pc' = [pc EXCEPT ![h] = "iterating"]
            /\ running' = h
            /\ UNCHANGED result
       ELSE /\ pc' = [pc EXCEPT ![h] = "ended"]
            /\ result' = [result EXCEPT ![h] = "KeyError"]
            /\ UNCHANGED <<message, iterLen, snap, running>>

\* lines 113-115 for the row of handler h: without an entry for the agent the
\* handler returns the row (line 117); with one it serializes the row once
\* and makes the iterator of the for loop over the live set, holding the
\* event loop until the first await
Dispatch(h, row) ==
    /\ db_data' = [db_data EXCEPT ![h] = row]
    /\ IF row.user_id \in DOMAIN subscriptions
       THEN /\ message' = [message EXCEPT ![h] = Serialize(row)]
            /\ iterLen' = [iterLen EXCEPT ![h] = Cardinality(Subscribers(row.user_id))]
            /\ snap' = [snap EXCEPT ![h] = Subscribers(row.user_id)]
            /\ pc' = [pc EXCEPT ![h] = "iterating"]
            /\ running' = h
            /\ UNCHANGED result
       ELSE /\ pc' = [pc EXCEPT ![h] = "ended"]
            /\ result' = [result EXCEPT ![h] = "ok"]
            /\ UNCHANGED <<message, iterLen, snap, running>>

\* variant of CommitFail that goes on to line 113 with the uncommitted row
CommitFailAs(h) ==
    /\ Arrives(h)
    /\ \E a \in Agents, rs \in RoadStates :
        /\ req' = [req EXCEPT ![h] = Payload(a, rs)]
        /\ Dispatch(h, NewRow(Payload(a, rs), nextId, clock))
    /\ UNCHANGED <<storeVars, connVars, inbox, iterPos, sent, failed>>
    /\ UNCHANGED response

\* lines 106-111 when the store is unavailable: session.commit() raises and
\* the storage error leaves the handler
CommitFail(h) ==
    /\ Arrives(h)
    /\ \E a \in Agents, rs \in RoadStates :
        req' = [req EXCEPT ![h] = Payload(a, rs)]
    /\ pc' = [pc EXCEPT ![h] = "ended"]
    /\ result' = [result EXCEPT ![h] = "StorageError"]
    /\ UNCHANGED <<storeVars, connVars, iterVars, inbox, db_data,
                   message, running, sent, failed>>
    /\ UNCHANGED response

\* variant of Commit whose lookup makes the entry of the agent
\* (subscriptions.setdefault(user_id, set()))
CommitAs(h) ==
    /\ Arrives(h)
    /\ \E a \in Agents, rs \in RoadStates :
        LET row == NewRow(Payload(a, rs), nextId, clock) IN
        /\ req' = [req EXCEPT ![h] = Payload(a, rs)]
        /\ store' = [i \in DOMAIN store \cup {nextId} |->
                        IF i = nextId THEN row ELSE store[i]]
        /\ commits' = Append(commits, row)
        /\ subscriptions' = [b \in DOMAIN subscriptions \cup {a} |->
                IF b \in DOMAIN subscriptions THEN subscriptions[b] ELSE {}]
        /\ Dispatch(h, row)
    /\ nextId' = nextId + 1
    /\ clock' = clock + 1
    /\ UNCHANGED <<connState, alive, subCalls, inbox, iterPos, sent, failed>>
    /\ UNCHANGED response

\* lines 106-115: build the row with the server's time, add it, commit, then
\* look the agent up in subscriptions
Commit(h) ==
    /\ Arrives(h)
    /\ \E a \in Agents, rs \in RoadStates :
        LET row == NewRow(Payload(a, rs), nextId, clock) IN
        /\ req' = [req EXCEPT ![h] = Payload(a, rs)]
        /\ store' = [i \in DOMAIN store \cup {nextId} |->
                        IF i = nextId THEN row ELSE store[i]]
        /\ commits' = Append(commits, row)
        /\ Dispatch(h, row)
    /\ nextId' = nextId + 1
    /\ clock' = clock + 1
    /\ UNCHANGED <<connVars, inbox, iterPos, sent, failed>>
    /\ UNCHANGED response

\* the handler is at the for statement and the event loop runs it: it holds
\* the loop since its commit, or the await of line 116 has completed
AtLoop(h) ==
    /\ pc[h] = "iterating"
    /\ running \in {0, h}

\* line 115: the set changed size while the handler was suspended; next()
\* raises RuntimeError, which leaves the handler
IterRaise(h) ==
    /\ AtLoop(h)
    /\ SizeChanged(h)
    /\ pc' = [pc EXCEPT ![h] = "ended"]
    /\ result' = [result EXCEPT ![h] = "RuntimeError"]
    /\ running' = 0
    /\ UNCHANGED <<storeVars, connVars, iterVars, inbox, req, db_data,
                   message, sent, failed>>
    /\ UNCHANGED response

\* line 115 exhausted, line 117: return db_data
IterStop(h) ==
    /\ AtLoop(h)
    /\ ~SizeChanged(h)
    /\ SlotsFrom(h) = {}
    /\ pc' = [pc EXCEPT ![h] = "ended"]
    /\ result' = [result EXCEPT ![h] = "ok"]
    /\ running' = 0
    /\ UNCHANGED <<storeVars, connVars, iterVars, inbox, req, db_data,
                   message, sent, failed>>
    /\ UNCHANGED response

\* lines 115-116: next() yields a connection whose channel is open;
\* send_text writes the message and the handler is suspended in the await
SendOk(h) ==
    /\ AtLoop(h)
    /\ ~SizeChanged(h)
    /\ SlotsFrom(h) # {}
    /\ LET j == Min(SlotsFrom(h))
           c == order[j] IN
        /\ alive[c]
        /\ iterPos' = [iterPos EXCEPT ![h] = Advance(j)]
        /\ inbox' = [inbox EXCEPT ![c] = Append(@, message[h])]
        /\ sent' = [sent EXCEPT ![h] = Append(@, c)]
    /\ running' = 0
    /\ UNCHANGED <<storeVars, connVars, pc, req, db_data, message,
                   iterLen, snap, result, failed>>
    /\ UNCHANGED response

\* variant of SendFail that swallows the error of send_text and goes on with
\* the next subscriber
SendFailAs(h) ==
    /\ AtLoop(h)
    /\ ~SizeChanged(h)
    /\ SlotsFrom(h) # {}
    /\ LET j == Min(SlotsFrom(h))
           c == order[j] IN
        /\ ~alive[c]
        /\ iterPos' = [iterPos EXCEPT ![h] = Advance(j)]
        /\ failed' = [failed EXCEPT ![h] = c]
    /\ running' = 0
    /\ UNCHANGED <<storeVars, connVars, inbox, pc, req, db_data, message,
                   iterLen, snap, result, sent>>
    /\ UNCHANGED response

\* lines 115-116: next() yields a connection whose channel is closed;
\* send_text raises and nothing catches it: the exception leaves the handler
SendFail(h) ==
    /\ AtLoop(h)
    /\ ~SizeChanged(h)
    /\ SlotsFrom(h) # {}
    /\ LET j == Min(SlotsFrom(h))
           c == order[j] IN
        /\ ~alive[c]
        /\ iterPos' = [iterPos EXCEPT ![h] = Advance(j)]
        /\ failed' = [failed EXCEPT ![h] = c]
    /\ pc' = [pc EXCEPT ![h] = "ended"]
    /\ result' = [result EXCEPT ![h] = "SendError"]
    /\ running' = 0
    /\ UNCHANGED <<storeVars, connVars, inbox, req, db_data, message,
                   iterLen, snap, sent>>
    /\ UNCHANGED response

\* ------------------------------------------- subscription endpoint (spec 4.1, 4.3)
\* the map subs after subs[a].add(c), the entry of the agent being made
\* when it has none
Registered(subs, a, c) ==
    [b \in DOMAIN subs \cup {a} |->
        IF b = a
        THEN (IF a \in DOMAIN subs THEN subs[a] ELSE {}) \cup {c}
        ELSE subs[b]]

\* variant of Subscribe that also takes a connection that is subscribed
\* already, without removing it from the set it is in
SubscribeAs(c, a, n) ==
    /\ running = 0
    /\ alive[c]
    /\ connState[c] \in {"connecting", "subscribed"}
    /\ subscriptions' = Registered(subscriptions, a, c)
    /\ connState' = [connState EXCEPT ![c] = "subscribed"]
    /\ subCalls' = [subCalls EXCEPT ![c] = n]
    /\ UNCHANGED <<storeVars, iterVars, alive, inbox, pc, req, db_data,
                   message, result, running, sent, failed>>
    /\ UNCHANGED response

\* subscribe(agentId, connection): Connecting -> Subscribed.  The endpoint
\* calls subscribe once, or again right away with the same connection and
\* agent; the second call adds to a set what is in it already.
Subscribe(c, a, n) ==
    /\ running = 0
    /\ alive[c]
    /\ connState[c] = "connecting"
    /\ subscriptions' = IF n = "once"
                        THEN Registered(subscriptions, a, c)
                        ELSE Registered(Registered(subscriptions, a, c), a, c)
    /\ connState' = [connState EXCEPT ![c] = "subscribed"]
    /\ subCalls' = [subCalls EXCEPT ![c] = n]
    /\ UNCHANGED <<storeVars, iterVars, alive, inbox, pc, req, db_data,
                   message, result, running, sent, failed>>
    /\ UNCHANGED response

\* variant of Unsubscribe that removes the connection and does not record
\* the terminal state, so that a second source of close runs it again
UnsubscribeAs(c) ==
    /\ running = 0
    /\ connState[c] = "subscribed"
    /\ \E b \in DOMAIN subscriptions : c \in subscriptions[b]
    /\ subscriptions' = [b \in DOMAIN subscriptions |-> subscriptions[b] \ {c}]
    /\ subCalls' = [subCalls EXCEPT ![c] = "none"]
    /\ UNCHANGED <<storeVars, iterVars, connState, alive, inbox, pc, req,
                   db_data, message, result, running, sent, failed>>
    /\ UNCHANGED response

\* unsubscribe(handle): Subscribed -> Closed on an unsubscribe request (the
\* channel still open) or on a transport error seen by the read loop (the
\* channel broken); the entry of the agent is left, maybe empty
Unsubscribe(c) ==
    /\ running = 0
    /\ connState[c] = "subscribed"
    /\ subscriptions' = [b \in DOMAIN subscriptions |-> subscriptions[b] \ {c}]
    /\ connState' = [connState EXCEPT ![c] = "closed"]
    /\ subCalls' = [subCalls EXCEPT ![c] = "none"]
    /\ UNCHANGED <<storeVars, iterVars, alive, inbox, pc, req, db_data,
                   message, result, running, sent, failed>>
    /\ UNCHANGED response

\* the channel of a subscribed connection closes abruptly; the registry
\* still holds the connection until the read loop notices
BreakChannel(c) ==
    /\ connState[c] = "subscribed"
    /\ alive[c]
    /\ alive' = [alive EXCEPT ![c] = FALSE]
    /\ UNCHANGED <<storeVars, iterVars, subscriptions, connState, inbox,
                   subCalls, pc, req, db_data, message, result, running, sent,
                   failed>>
    /\ UNCHANGED response

\* -------------------------------------------------------------------- Next
Next ==
    \/ \E h \in Handlers : Commit(h)
    \/ \E h \in Handlers : CommitFail(h)
    \/ \E h \in Handlers : IterRaise(h)
    \/ \E h \in Handlers : IterStop(h)
    \/ \E h \in Handlers : SendOk(h)
    \/ \E h \in Handlers : SendFail(h)
    \/ \E c \in Conns, a \in Agents, n \in {"once", "again"} : Subscribe(c, a, n)
    \/ \E c \in Conns : Unsubscribe(c)
    \/ \E c \in Conns : BreakChannel(c)

Spec == Init /\ [][Next]_vars

\* ------------------------------------------------------- a consumer that hangs
\* lines 115-116: next() yields a connection whose channel is open and whose
\* peer does not read; the await of send_text never completes and the
\* handler stays suspended in it, the event loop free for the others
SendHang(h) ==
    /\ AtLoop(h)
    /\ ~SizeChanged(h)
    /\ SlotsFrom(h) # {}
    /\ LET j == Min(SlotsFrom(h))
           c == order[j] IN
        /\ alive[c]
        /\ iterPos' = [iterPos EXCEPT ![h] = Advance(j)]
    /\ pc' = [pc EXCEPT ![h] = "blocked"]
    /\ running' = 0
    /\ UNCHANGED <<storeVars, connVars, inbox, req, db_data, message,
                   iterLen, snap, result, sent, failed>>
    /\ UNCHANGED response

\* the connection a blocked handler is suspended on: the one its iterator
\* yielded last
Hanging(h) == order[iterPos[h] - 1]

\* service without faults other than consumers that hang
NextHang ==
    \/ \E h \in Handlers : Commit(h)
    \/ \E h \in Handlers : IterRaise(h)
    \/ \E h \in Handlers : IterStop(h)
    \/ \E h \in Handlers : SendOk(h)
    \/ \E h \in Handlers : SendHang(h)
    \/ \E c \in Conns, a \in Agents, n \in {"once", "again"} : Subscribe(c, a, n)

\* the event loop resumes every handler whose await has completed
FairHandlers ==
    \A h \in Handlers :
        WF_vars(IterRaise(h) \/ IterStop(h) \/ SendOk(h))

SpecHang == Init /\ [][NextHang]_vars /\ FairHandlers

\* ------------------------------------------------------------ query handlers
\* The four handlers below are plain functions: the framework runs them on
\* worker threads, beside the event loop, each in one session of the store.
Others == <<nextId, clock, commits, connVars, iterVars, inbox, pc, req,
            db_data, message, result, running, sent, failed>>

\* session.query(...).filter(id == i).first(): the row or nothing
First(i) == IF i \in DOMAIN store THEN store[i] ELSE <<>>

Raise404(op, i) ==
    response' = [op |-> op, id |-> i, status_code |-> NotFound,
                 body |-> "Item not found"]

Return(op, i, body) ==
    response' = [op |-> op, id |-> i, status_code |-> Success, body |-> body]

\* read_processed_agent_data, lines 121-128
Read(i) ==
    /\ IF First(i) = <<>> THEN Raise404("read", i)
                          ELSE Return("read", i, First(i))
    /\ UNCHANGED <<store, Others>>

\* list_processed_agent_data, lines 132-136: all rows, in no stated order
List ==
    /\ Return("list", 0, {store[i] : i \in DOMAIN store})
    /\ UNCHANGED <<store, Others>>

\* the row after the setattr loop of lines 147-148: of the fields of the
\* payload (road_state, agent_data) only road_state is a column of the table
Updated(row, data) == [row EXCEPT !.road_state = data.road_state]

\* variant of Update without the test of line 145: an absent id is inserted
UpdateAs(i, data) ==
    /\ IF First(i) = <<>>
       THEN /\ store' = [j \in DOMAIN store \cup {i} |->
                           IF j = i THEN NewRow(data, i, clock) ELSE store[j]]
            /\ Return("update", i, NewRow(data, i, clock))
       ELSE /\ store' = [store EXCEPT ![i] = Updated(First(i), data)]
            /\ Return("update", i, Updated(First(i), data))
    /\ UNCHANGED Others

\* update_processed_agent_data, lines 140-150
Update(i, data) ==
    /\ IF First(i) = <<>>
       THEN /\ Raise404("update", i)
            /\ UNCHANGED store
       ELSE /\ store' = [store EXCEPT ![i] = Updated(First(i), data)]
            /\ Return("update", i, Updated(First(i), data))
    /\ UNCHANGED Others

\* variant of Delete that tells the subscribers of the row's agent
DeleteAs(i) ==
    /\ IF First(i) = <<>>
       THEN /\ Raise404("delete", i)
            /\ UNCHANGED <<store, inbox>>
       ELSE /\ store' = [j \in DOMAIN store \ {i} |-> store[j]]
            /\ Return("delete", i, First(i))
            /\ inbox' = [c \in Conns |->
                   IF /\ First(i).user_id \in DOMAIN subscriptions
                      /\ c \in Subscribers(First(i).user_id)
                   THEN Append(inbox[c], Serialize(First(i)))
                   ELSE inbox[c]]
    /\ UNCHANGED <<nextId, clock, commits, connVars, iterVars, pc, req,
                   db_data, message, result, running, sent, failed>>

\* delete_processed_agent_data, lines 154-163
Delete(i) ==
    /\ IF First(i) = <<>>
       THEN /\ Raise404("delete", i)
            /\ UNCHANGED store
       ELSE /\ store' = [j \in DOMAIN store \ {i} |-> store[j]]
            /\ Return("delete", i, First(i))
    /\ UNCHANGED Others

Query ==
    \/ \E i \in QueryIds : Read(i)
    \/ List
    \/ \E i \in QueryIds, a \in Agents, rs \in UpdateStates :
          Update(i, Payload(a, rs))
    \/ \E i \in QueryIds : Delete(i)

\* the program of src/main.py alone: nothing in it writes subscriptions, so
\* line 113 is false in every state and the steps of the loop of lines
\* 115-116 are never enabled
NextSrc ==
    \/ \E h \in Handlers : Commit(h)
    \/ \E h \in Handlers : CommitFail(h)
    \/ Query

SpecSrc == Init /\ [][NextSrc]_vars

\* the program with the endpoint of the spec in service without faults:
\* ingest, fan-out and the query handlers side by side, connections
\* subscribing (one subscribe call each), the store available and every
\* channel staying open
NextServing ==
    \/ \E h \in Handlers : Commit(h)
    \/ \E h \in Handlers : IterRaise(h)
    \/ \E h \in Handlers : IterStop(h)
    \/ \E h \in Handlers : SendOk(h)
    \/ \E c \in Conns, a \in Agents : Subscribe(c, a, "once")
    \/ Query

SpecServing == Init /\ [][NextServing]_vars

\* the same with the faults and the unsubscribe of Next
NextAll ==
    \/ Next
    \/ Query

SpecAll == Init /\ [][NextAll]_vars

\* ------------------------------------------------------- notions of the claims
\* the handler got past session.commit() (line 111)
Committed(h) == pc[h] # "idle" /\ result[h] # "StorageError"

\* the handler has left create_processed_agent_data
Ended(h) == pc[h] = "ended"

\* the record of handler h as a client decodes it: the ingested values, the
\* id the store assigned and the stored timestamp
Expected(h) ==
    [id |-> db_data[h].id, road_state |-> req[h].road_state,
     user_id |-> req[h].user_id, timestamp |-> db_data[h].timestamp]

\* how many messages of a connection decode to the record of handler h
Received(c, h) ==
    Cardinality({i \in DOMAIN inbox[c] : Decode(inbox[c][i]) = Expected(h)})

\* position of a message's record in the commit order
CommitIndex(msg) == CHOOSE k \in DOMAIN commits : Serialize(commits[k]) = msg

NoRepeat(q) == \A i, j \in DOMAIN q : i # j => q[i] # q[j]

\* ---------------------------------------------------------------------- C1
\* C1: every message a connection has received is the serialization of a
\* record the store has already committed, and a handler whose store write
\* failed has sent no message at all.
CommitBeforeNotify ==
    /\ \A c \in Conns : \A i \in DOMAIN inbox[c] :
          \E k \in DOMAIN commits : inbox[c][i] = Serialize(commits[k])
    /\ \A h \in Handlers : ~Committed(h) => sent[h] = <<>>

\* a store failure for an agent that has an open subscriber which received
\* nothing from it, next to an ingest that committed and delivered
CommitBeforeNotifyWitness ==
    \E h, g \in Handlers :
        /\ result[h] = "StorageError"
        /\ Ended(g) /\ result[g] = "ok" /\ sent[g] # <<>>
        /\ req[h].user_id \in DOMAIN subscriptions
        /\ \E c \in subscriptions[req[h].user_id] : alive[c] /\ Received(c, g) = 1

\* ---------------------------------------------------------------------- C2
\* C2: when the send to one connection failed in a dispatch, every other
\* connection that was subscribed when the dispatch began, and is still
\* subscribed with an open channel, has received the message of that record.
SiblingsStillReceive ==
    \A h \in Handlers :
        (Ended(h) /\ failed[h] # 0) =>
            \A c \in snap[h] \ {failed[h]} :
                (alive[c] /\ connState[c] = "subscribed") =>
                    message[h] \in Range(inbox[c])

\* ---------------------------------------------------------------------- C3
\* C3: a connection whose send failed in the ingest of a record of agent a is
\* no longer in the subscriber set of a once that ingest has ended.
FailedSendUnregisters ==
    \A h \in Handlers :
        (Ended(h) /\ failed[h] # 0) =>
            failed[h] \notin subscriptions[db_data[h].user_id]

\* ---------------------------------------------------------------------- C4
\* C4: an ingest whose commit succeeded and in which a send failed still
\* returns the committed record to its caller.
DeliveryFailureNotSurfaced ==
    \A h \in Handlers :
        (Ended(h) /\ Committed(h) /\ failed[h] # 0) => result[h] = "ok"

\* ---------------------------------------------------------------------- C5
\* C5: every connection receives the records in the order the store
\* committed them.
DeliveryOrderIsCommitOrder ==
    \A c \in Conns : \A i, j \in DOMAIN inbox[c] :
        i < j => CommitIndex(inbox[c][i]) < CommitIndex(inbox[c][j])

\* ---------------------------------------------------------------------- C6
\* C6: a step that writes a message to a connection writes the record of a
\* handler at its loop, and the connection is in the subscriber set of that
\* record's agent.
RoutingIsolation ==
    [][\A c \in Conns :
          inbox'[c] # inbox[c] =>
              \E h \in Handlers :
                  /\ pc[h] = "iterating"
                  /\ inbox'[c] = Append(inbox[c], Serialize(db_data[h]))
                  /\ c \in subscriptions[db_data[h].user_id]]_vars

\* two ingests for different agents have ended well, one after the other:
\* the subscriber of each agent, subscribed all along with an open channel,
\* has the record of its agent and nothing else
RoutingIsolationWitness ==
    \E g, h \in Handlers, c, d \in Conns :
        /\ Ended(g) /\ result[g] = "ok"
        /\ Ended(h) /\ result[h] = "ok"
        /\ db_data[g].id < db_data[h].id
        /\ db_data[g].user_id # db_data[h].user_id
        /\ connState[c] = "subscribed" /\ alive[c]
        /\ connState[d] = "subscribed" /\ alive[d]
        /\ inbox[d] = <<message[g]>>
        /\ inbox[c] = <<message[h]>>

\* ---------------------------------------------------------------------- C7
\* C7: once an ingest has ended after its commit, every connection that was
\* subscribed to the record's agent at the commit, and is still subscribed
\* with an open channel, has received exactly one message that decodes to
\* the ingested values plus the assigned id.
OneMessagePerRecord ==
    \A h \in Handlers :
        (Ended(h) /\ Committed(h)) =>
            \A c \in Conns :
                ( /\ db_data[h].user_id \in DOMAIN subscriptions
                  /\ c \in snap[h]
                  /\ alive[c]
                  /\ connState[c] = "subscribed" ) => Received(c, h) = 1

\* ---------------------------------------------------------------------- C8
\* C8: no step writes a message to a connection that has been unsubscribed.
UnsubscribedNeverReceives ==
    [][\A c \in Conns : connState[c] = "closed" => inbox'[c] = inbox[c]]_vars

\* a connection with an open channel was unsubscribed while a dispatch that
\* began with it in the set was suspended; the dispatch has moved on since
\* and the connection has not received its record
UnsubscribedNeverReceivesWitness ==
    \E h \in Handlers, c \in Conns :
        /\ c \in snap[h]
        /\ connState[c] = "closed" /\ alive[c]
        /\ sent[h] # <<>>
        /\ Ended(h)
        /\ Received(c, h) = 0

\* ---------------------------------------------------------------------- C9
\* C9: a dispatch in which no send failed ends well and has delivered to
\* exactly the connections subscribed when it began, whatever was subscribed
\* or unsubscribed while it was suspended.
DispatchUsesSnapshot ==
    \A h \in Handlers :
        (Ended(h) /\ Committed(h) /\ failed[h] = 0) =>
            /\ result[h] = "ok"
            /\ Range(sent[h]) = snap[h]

\* --------------------------------------------------------------------- C10
\* C10: no connection receives the same record twice, and no handler writes
\* twice to the same connection.
AtMostOnce ==
    /\ \A c \in Conns : NoRepeat(inbox[c])
    /\ \A h \in Handlers : NoRepeat(sent[h])

\* a connection that was subscribed twice to the agent has received the
\* record of an ingest that wrote to it and ended well exactly once
AtMostOnceWitness ==
    \E h \in Handlers, c \in Conns :
        /\ Ended(h) /\ result[h] = "ok"
        /\ subCalls[c] = "again"
        /\ c \in Range(sent[h])
        /\ Received(c, h) = 1

InSomeSet(subs, c) == \E b \in DOMAIN subs : c \in subs[b]

UnknownAgentIsNoError ==
    [][\A h \in Handlers :
        (/\ pc[h] = "idle"
         /\ pc'[h] # "idle"
         /\ result'[h] # "StorageError"
         /\ req'[h].user_id \notin DOMAIN subscriptions)
        => /\ pc'[h] = "ended"
           /\ result'[h] = "ok"
           /\ Len(commits') = Len(commits) + 1
           /\ db_data'[h] = commits'[Len(commits')]
           /\ db_data'[h].id \in DOMAIN store'
           /\ store'[db_data'[h].id] = db_data'[h]
           /\ db_data'[h].user_id = req'[h].user_id
           /\ inbox' = inbox
           /\ sent'[h] = <<>>
           /\ subscriptions' = subscriptions]_vars

\* a request has ended well for an agent that has no entry while the other
\* agent has one with a subscriber: the row is stored and nothing was sent
UnknownAgentIsNoErrorWitness ==
    \E h \in Handlers :
        /\ Ended(h)
        /\ result[h] = "ok"
        /\ db_data[h].user_id \notin DOMAIN subscriptions
        /\ \E b \in DOMAIN subscriptions : subscriptions[b] # {}
        /\ db_data[h].id \in DOMAIN store
        /\ store[db_data[h].id] = db_data[h]
        /\ sent[h] = <<>>
        /\ \A c \in Conns : Received(c, h) = 0

\* --------------------------------------------------------------------- C16
\* datetime.utcnow() at the commit that assigns id k: the clock starts after
\* the time the clients write in their payloads and ticks once per commit
ServerTime(k) == ClientTime + k

\* C16: the committed, stored, returned and delivered record carries the
\* server's time at its commit, never the timestamp of the payload.
TimestampIsIngestTime ==
    /\ \A k \in DOMAIN commits :
        /\ commits[k].id = k
        /\ commits[k].timestamp = ServerTime(k)
        /\ commits[k].timestamp # ClientTime
    /\ \A i \in DOMAIN store : store[i].timestamp = ServerTime(i)
    /\ \A h \in Handlers :
        Committed(h) => /\ db_data[h].timestamp = ServerTime(db_data[h].id)
                        /\ db_data[h].timestamp # req[h].timestamp
    /\ \A c \in Conns : \A i \in DOMAIN inbox[c] :
        Decode(inbox[c][i]).timestamp = ServerTime(Decode(inbox[c][i]).id)

\* the second request's record was delivered and returned: the payload
\* carried the client's time, the stored and delivered record the server's
TimestampIsIngestTimeWitness ==
    \E h \in Handlers : \E c \in Conns :
        /\ Ended(h)
        /\ result[h] = "ok"
        /\ req[h].timestamp = ClientTime
        /\ db_data[h].id = 2
        /\ store[2].timestamp = ServerTime(2)
        /\ \E i \in DOMAIN inbox[c] :
            /\ Decode(inbox[c][i]).id = 2
            /\ Decode(inbox[c][i]).timestamp = ServerTime(2)

\* --------------------------------------------------------------------- C19
\* the slot of a connection in the iteration order
SlotOf(c) == CHOOSE j \in DOMAIN order : order[j] = c

\* C19: once a send of a handler has raised, the handler has ended with the
\* send error, its row is still in the store as committed, the connections
\* it sent to come before the failing one in the iteration and each holds
\* the record once, and no other connection holds the record.
PartialFanOut ==
    \A h \in Handlers : failed[h] # 0 =>
        /\ Ended(h)
        /\ result[h] = "SendError"
        /\ db_data[h] \in Range(commits)
        /\ db_data[h].id \in DOMAIN store
        /\ store[db_data[h].id] = db_data[h]
        /\ failed[h] \notin Range(sent[h])
        /\ \A c \in Conns :
            /\ c \in Range(sent[h])
                => (Received(c, h) = 1 /\ SlotOf(c) < SlotOf(failed[h]))
            /\ c \notin Range(sent[h]) => Received(c, h) = 0

\* one fan-out failed at its second subscriber after the first was served,
\* another failed at its first subscriber with the second still registered
PartialFanOutWitness ==
    \E h, g \in Handlers : \E c, d \in Conns :
        /\ failed[h] = d /\ sent[h] = <<c>> /\ Received(c, h) = 1
        /\ failed[g] = c /\ sent[g] = <<>>
        /\ SlotOf(c) < SlotOf(d)
        /\ d \in Subscribers(db_data[g].user_id)
        /\ Received(d, g) = 0
        /\ store[db_data[h].id] = db_data[h]
        /\ store[db_data[g].id] = db_data[g]

\* --------------------------------------------------------------------- C14
\* C14: every answer of get, update or delete for an id that has no row is
\* the not-found error, and the step that gives it leaves the store as it was.
AbsentIdIsNotFound ==
    [][(/\ response' # response
        /\ response'.op \in {"read", "update", "delete"}
        /\ response'.id \notin DOMAIN store)
       => /\ response'.status_code = NotFound
          /\ response'.body = "Item not found"
          /\ store' = store]_vars

\* an update was answered with not-found for an id whose row was committed
\* and deleted before, while the other row is still stored
AbsentIdIsNotFoundWitness ==
    /\ response.op = "update"
    /\ response.status_code = NotFound
    /\ response.id \in DOMAIN commits
    /\ response.id \notin DOMAIN store
    /\ store # <<>>

\* --------------------------------------------------------------------- C18
\* C18: in the program of src/main.py subscriptions has no entry in any
\* state, no handler is ever in the loop of line 115, and no connection has
\* been written to.
RegistryStaysEmpty ==
    /\ subscriptions = <<>>
    /\ \A h \in Handlers : pc[h] # "iterating" /\ sent[h] = <<>>
    /\ \A c \in Conns : inbox[c] = <<>> /\ connState[c] = "connecting"

\* both requests were committed and answered, for different agents, and the
\* registry is empty and nothing was sent
RegistryStaysEmptyWitness ==
    /\ \A h \in Handlers : Ended(h) /\ result[h] = "ok" /\ message[h] = <<>>
    /\ \E h, g \in Handlers : db_data[h].user_id # db_data[g].user_id
    /\ Len(commits) = Cardinality(Handlers)
    /\ subscriptions = <<>>
    /\ \A c \in Conns : inbox[c] = <<>>

\* --------------------------------------------------------------------- C17
\* C17: a step of a query handler (it answers, or changes the store without
\* a commit of ingest) writes to no connection and leaves subscriptions and
\* the connections' states as they were; every write to a connection is a
\* step of the loop of an ingest handler.
QueriesDoNotNotify ==
    [][/\ (response' # response \/ (store' # store /\ commits' = commits))
          => /\ inbox' = inbox
             /\ subscriptions' = subscriptions
             /\ connState' = connState
             /\ sent' = sent
       /\ inbox' # inbox
          => /\ response' = response
             /\ store' = store
             /\ \E h \in Handlers : pc[h] = "iterating" /\ sent'[h] # sent[h]]_vars

\* a subscriber got the record at its ingest; the row was then updated and
\* the update answered, and the subscriber still holds that one message only
QueriesDoNotNotifyWitness ==
    \E c \in Conns :
        /\ response.op = "update"
        /\ response.status_code = Success
        /\ response.id \in DOMAIN store
        /\ store[response.id].road_state \in UpdateStates
        /\ store[response.id].user_id \in DOMAIN subscriptions
        /\ c \in Subscribers(store[response.id].user_id)
        /\ Len(inbox[c]) = 1
        /\ Decode(inbox[c][1]).id = response.id
        /\ Decode(inbox[c][1]).road_state \in RoadStates

\* --------------------------------------------------------------------- C15
\* C15: a handler suspended for good in the send to one subscriber has served
\* every other subscriber the agent had at the commit whose channel is open
\* (nothing else delivers its record, so they hold it then or never).
HangDoesNotBlockSiblings ==
    \A h \in Handlers : pc[h] = "blocked" =>
        \A c \in snap[h] \ {Hanging(h)} :
            alive[c] => Received(c, h) = 1

\* C15 as stated: under fair scheduling of the handlers every subscriber in
\* the set at the commit, other than one a handler hangs on, gets the record.
HangDoesNotBlockSiblingsEventually ==
    \A h \in Handlers : \A c \in Conns :
        (pc[h] = "blocked" /\ c \in snap[h] /\ c # Hanging(h) /\ alive[c])
            ~> (Committed(h) /\ Received(c, h) = 1)

====
